---- MODULE Spec2Model ----
(***************************************************************************)
(* Model of socket_channel: the wire codec of src/socket_message.rs        *)
(* (SocketMessage::parse, the getters, SocketMessageBuilder::build) and    *)
(* the per-connection session of src/mod.rs (Connection).                  *)
(*                                                                         *)
(* A text is a sequence of characters; each character is a one-element     *)
(* string.  EAcute stands for a character whose UTF-8 encoding takes two   *)
(* bytes, so that the difference between the character index the parser    *)
(* counts and the byte offsets Rust slices by is part of the model.        *)
(* Option<T> is a sequence: None is <<>>, Some(x) is <<x>>.                *)
(***************************************************************************)
EXTENDS Integers, Sequences, FiniteSets, TLC

\* ------------------------------------------------------------------ bounds
MaxLen == 4          \* longest text handed to SocketMessage::parse
MaxPrefixLen == 2    \* longest prefix handed to SocketMessageBuilder::new
MaxCtxLen == 2       \* longest context handed to SocketMessageBuilder::context
MaxFrames == 2       \* frames read from the socket of one Connection
MaxSends == 1        \* application calls of Connection::send
MaxInFlight == 3     \* connections between TCP accept and the end of publishing
MaxClosed == 2       \* Connections closed because the receiver is gone

\* ------------------------------------------------------------ option type
None == <<>>
Some(x) == <<x>>

\* ------------------------------------------------------ characters, bytes
EAcute == "U+00E9"
Width(ch) == IF ch = EAcute THEN 2 ELSE 1

IsWhitespace(ch) == ch = " "

\* String::len(): the length in bytes
RECURSIVE ByteLen(_)
ByteLen(t) == IF t = <<>> THEN 0 ELSE Width(Head(t)) + ByteLen(Tail(t))

\* byte offset at which character number k (1-based) of t starts
ByteOffset(t, k) == ByteLen(SubSeq(t, 1, k - 1))

IsCharBoundary(t, i) == \E k \in 1..(Len(t) + 1) : ByteOffset(t, k) = i

CharAt(t, i) == CHOOSE k \in 1..(Len(t) + 1) : ByteOffset(t, k) = i

\* a panic of the Rust runtime, as a value no text and no JSON value equals
PanicStr == "#panic"
PanicText == <<PanicStr>>

\* &text[a..b]: a and b are byte offsets; a slice that is out of range or does
\* not lie on character boundaries panics
Slice(t, a, b) ==
    IF a > b \/ b > ByteLen(t) \/ ~IsCharBoundary(t, a) \/ ~IsCharBoundary(t, b)
    THEN PanicText
    ELSE SubSeq(t, CharAt(t, a), CharAt(t, b) - 1)

\* ------------------------------------------------------------------- JSON
\* serde_json::Value, restricted to two values named by their canonical text
JsonValues == {"1", "[]"}

\* serde_json::to_string
json_to_string(v) ==
    IF v = "1" THEN <<"1">> ELSE <<"[", "]">>

RECURSIVE TrimStart(_)
TrimStart(t) ==
    IF t # <<>> /\ IsWhitespace(Head(t)) THEN TrimStart(Tail(t)) ELSE t

RECURSIVE TrimEnd(_)
TrimEnd(t) ==
    IF t # <<>> /\ IsWhitespace(t[Len(t)]) THEN TrimEnd(SubSeq(t, 1, Len(t) - 1)) ELSE t

\* serde_json::from_str(..).ok(): whitespace around the value and inside an
\* array is skipped; anything else is an error, which .ok() turns into None
json_from_str(t) ==
    LET s == TrimEnd(TrimStart(t))
    IN  IF s = <<"1">> THEN Some("1")
        ELSE IF Len(s) >= 2 /\ s[1] = "[" /\ s[Len(s)] = "]"
                /\ \A i \in 2..(Len(s) - 1) : IsWhitespace(s[i])
             THEN Some("[]")
        ELSE None

\* ------------------------------------------------- SocketMessage::parse
ParseInit ==
    [prefix_end |-> None, context_start |-> None, context_end |-> None,
     body_start |-> None, index |-> 0, brk |-> FALSE]

\* the body of `for character in text.chars()`
ParseChar_NoCloseAtStart(st, character) ==
    LET s1 ==
          IF st.prefix_end = None THEN
              IF character = "(" THEN [st EXCEPT !.prefix_end = Some(st.index)] ELSE st
          ELSE IF st.context_start = None THEN
              [st EXCEPT !.context_start = Some(st.index)]
          ELSE IF st.context_end = None THEN
              IF character = ")" THEN [st EXCEPT !.context_end = Some(st.index)] ELSE st
          ELSE IF st.body_start = None THEN
              IF ~IsWhitespace(character)
              THEN [st EXCEPT !.body_start = Some(st.index), !.brk = TRUE]
              ELSE st
          ELSE st
    IN  IF s1.brk THEN s1 ELSE [s1 EXCEPT !.index = st.index + 1]

ParseChar(st, character) ==
    LET s1 ==
          IF st.prefix_end = None THEN
              IF character = "(" THEN [st EXCEPT !.prefix_end = Some(st.index)] ELSE st
          ELSE IF st.context_start = None THEN
              [st EXCEPT !.context_start = Some(st.index),
                         !.context_end = IF character = ")" THEN Some(st.index) ELSE None]
          ELSE IF st.context_end = None THEN
              IF character = ")" THEN [st EXCEPT !.context_end = Some(st.index)] ELSE st
          ELSE IF st.body_start = None THEN
              IF ~IsWhitespace(character)
              THEN [st EXCEPT !.body_start = Some(st.index), !.brk = TRUE]
              ELSE st
          ELSE st
    IN  IF s1.brk THEN s1 ELSE [s1 EXCEPT !.index = st.index + 1]

RECURSIVE ParseLoop(_, _, _)
ParseLoop(text, k, st) ==
    IF k > Len(text) \/ st.brk THEN st
    ELSE ParseLoop(text, k + 1, ParseChar(st, text[k]))

Ok(m) == [ok |-> TRUE, msg |-> m]
Err(e) == [ok |-> FALSE, err |-> e]

parse_TrimPrefix(text) ==
    LET st == ParseLoop(text, 1, ParseInit)
        prefix_end == IF st.prefix_end = None THEN ByteLen(TrimEnd(text))
                      ELSE st.prefix_end[1]
    IN  IF prefix_end = 0 THEN Err("EmptyPrefixNotAllowed")
        ELSE IF st.context_start # None /\ st.context_end = None
             THEN Err("ExpectedClosingContextParen")
        ELSE Ok([text |-> text,
                 prefix_end |-> prefix_end,
                 context_range |->
                     IF st.context_start = None THEN None
                     ELSE Some(<<st.context_start[1], st.context_end[1]>>),
                 body_start |-> st.body_start])

parse(text) ==
    LET st == ParseLoop(text, 1, ParseInit)
        prefix_end == IF st.prefix_end = None THEN ByteLen(text)
                      ELSE st.prefix_end[1]
    IN  IF prefix_end = 0 THEN Err("EmptyPrefixNotAllowed")
        ELSE IF st.context_start # None /\ st.context_end = None
             THEN Err("ExpectedClosingContextParen")
        ELSE Ok([text |-> text,
                 prefix_end |-> prefix_end,
                 context_range |->
                     IF st.context_start = None THEN None
                     ELSE Some(<<st.context_start[1], st.context_end[1]>>),
                 body_start |-> st.body_start])

get_prefix(m) == Slice(m.text, 0, m.prefix_end)

\* None, Some(text), or Some(PanicText) when the slice panics
get_context(m) ==
    IF m.context_range = None THEN None
    ELSE LET range == m.context_range[1]
         IN  IF range[1] = range[2] THEN None
             ELSE Some(Slice(m.text, range[1], range[2]))

\* None, Some(value), or Some(PanicStr) when the slice panics
get_body(m) ==
    IF m.body_start = None THEN None
    ELSE LET s == Slice(m.text, m.body_start[1], ByteLen(m.text))
         IN  IF s = PanicText THEN Some(PanicStr) ELSE json_from_str(s)

to_string(m) == m.text

\* ------------------------------------------- SocketMessageBuilder::build
\* context and body are options
build(prefix, context, body) ==
    LET t1 == IF context # None THEN prefix \o <<"(">> \o context[1] \o <<")">>
              ELSE prefix
        context_range ==
              IF context # None
              THEN Some(<<ByteLen(prefix) + 1, ByteLen(prefix) + 1 + ByteLen(context[1])>>)
              ELSE None
        t2 == IF body # None THEN t1 \o <<" ">> \o json_to_string(body[1]) ELSE t1
        body_start == IF body # None THEN Some(ByteLen(t1) + 1) ELSE None
    IN  Ok([text |-> t2,
            prefix_end |-> ByteLen(prefix),
            context_range |-> context_range,
            body_start |-> body_start])

\* ------------------------------------------------------------------ Uuid
\* uuid::Uuid, restricted to two identifiers.  A textual UUID is abbreviated
\* to one character: "a" and "b" are the canonical (lower-case, hyphenated)
\* forms, "A" and "B" the upper-case forms Uuid::parse_str accepts as well.
Uuids == {"ua", "ub"}

\* Uuid::parse_str: Some(uuid), or None for Err
Uuid_parse_str(t) ==
    IF t = <<"a">> \/ t = <<"A">> THEN Some("ua")
    ELSE IF t = <<"b">> \/ t = <<"B">> THEN Some("ub")
    ELSE None

\* Uuid::to_string: the canonical form
Uuid_to_string(u) == IF u = "ua" THEN <<"a">> ELSE <<"b">>

\* ------------------------------------------------------------ the session
VARIABLES
    connection_details,  \* Connection.connection_details : Option<ConnectionDetails>
    last_value,          \* Connection.last_value : Option<Value>
    client_pin,          \* Connection.client_pin : Option<Uuid>
    out,                 \* what the Connection has written to its socket, in order
    pc,                  \* where the caller of the Connection is
    state,               \* the argument of the send that is awaiting its socket write
    ret,                 \* operation and result of the call that returned last
    returned,            \* the Some(event) results of next_socket_event, in order
    recvd,               \* the frames socket.next() has yielded, in order
    nsend,               \* number of application calls of send
    lastSendArg,         \* the value passed to the most recent call of send
    c_in, c_built, c_parsed,  \* codec: the input, the built and the parsed message
    srv_accepting,       \* the spawned accept loop is running
    srv_serving,         \* accepted TCP connections served as HTTP, not yet upgrading
    srv_handshaking,     \* spawned upgrade tasks awaiting hyper_socket
    srv_publishing,      \* upgrade tasks in sender.send(Connection).await
    srv_queue,           \* Connections stored in the channel
    srv_receiver,        \* the SocketServer (connections_receiver) is alive
    srv_closed,          \* Connections closed with "Failed to queue connection"
    srv_lost             \* Connections destroyed in no other way

sessionVars == <<connection_details, last_value, client_pin, out, pc, state, ret,
                 returned, recvd, nsend, lastSendArg>>
codecVars == <<c_in, c_built, c_parsed>>
serverVars == <<srv_accepting, srv_serving, srv_handshaking, srv_publishing, srv_queue, srv_receiver,
                srv_closed, srv_lost>>
vars == <<connection_details, last_value, client_pin, out, pc, state, ret,
          returned, recvd, nsend, lastSendArg, c_in, c_built, c_parsed,
          srv_accepting, srv_serving, srv_handshaking, srv_publishing, srv_queue, srv_receiver,
          srv_closed, srv_lost>>

\* SocketServer::new: nothing accepted yet, the channel empty, the receiver alive
InitServer ==
    /\ srv_accepting = TRUE
    /\ srv_serving = 0
    /\ srv_handshaking = 0
    /\ srv_publishing = 0
    /\ srv_queue = 0
    /\ srv_receiver = TRUE
    /\ srv_closed = 0
    /\ srv_lost = 0

\* the ConnectionDetails SocketServer::new captured from the upgrade request
Details == [path |-> "/", query_params |-> <<>>]

Connect(details) == [kind |-> "Connect", details |-> details]
Update(value) == [kind |-> "Update", value |-> value]

\* texts of inbound frames
T_sync == <<"s", "y", "n", "c">>
T_event == <<"e", "v", "e", "n", "t">>
T_model == <<"m", "o", "d", "e", "l">>

InboundTexts ==
    { T_sync,
      T_sync \o <<"(", "b", ")", " ", "1">>,
      T_event \o <<"(", "a", ")", " ", "1">>,
      T_event \o <<"(", "B", ")", " ", "[", " ", "]">>,
      T_event \o <<"(", ")", " ", "1">>,
      T_event \o <<" ", "1">>,
      T_event \o <<"(", "x", ")", " ", "1">>,
      T_event \o <<"(", "a", ")">>,
      T_event \o <<"(", "b", ")", " ", "x">>,
      <<"b", "a", "d">>,
      <<"(">>,
      T_event \o <<"(", EAcute, ")", " ", "1">>,
      <<EAcute, EAcute, "(">> }

\* what socket.next() can yield: Some(Ok(message)) for the five message kinds,
\* Some(Err(_)) as "Err", None (end of stream) as "End"
Frames ==
    { [type |-> "Text", text |-> t] : t \in InboundTexts }
    \cup { [type |-> k, text |-> <<>>] : k \in {"Ping", "Pong", "Close", "Binary", "Err", "End"} }

TextFrame(t) == [type |-> "Text", text |-> t]
CloseFrame(reason) == [type |-> "Close", code |-> "Normal", reason |-> reason]

Init ==
    /\ connection_details = Some(Details)
    /\ last_value = None
    /\ client_pin = None
    /\ out = <<>>
    /\ pc = "idle"
    /\ state = None
    /\ ret = [op |-> "new", result |-> None]
    /\ returned = <<>>
    /\ recvd = <<>>
    /\ nsend = 0
    /\ lastSendArg = None
    /\ c_in = None
    /\ c_built = None
    /\ c_parsed = None
    /\ InitServer

\* ------------------------------------------------------ Connection::send
\* the context of the outbound message (mod.rs 149-152)
pin_string_Empty(pin) == <<>>

pin_string(pin) == IF pin # None THEN Uuid_to_string(pin[1]) ELSE <<>>

\* the text frame send hands to the socket (mod.rs 155-157)
ModelFrame(pin, value) ==
    TextFrame(to_string(build(T_model, Some(pin_string(pin)), Some(value)).msg))

\* the call returns to the application: the result is recorded
Return(op, result) ==
    /\ ret' = [op |-> op, result |-> result]
    /\ pc' = "idle"

\* send, up to the point where it awaits the socket write (mod.rs 149-157)
CallSend ==
    /\ pc = "idle"
    /\ nsend < MaxSends
    /\ \E value \in JsonValues :
         /\ out' = Append(out, ModelFrame(client_pin, value))
         /\ state' = Some(value)
         /\ lastSendArg' = Some(value)
    /\ pc' = "sending"
    /\ nsend' = nsend + 1
    /\ UNCHANGED <<connection_details, last_value, client_pin, ret, returned, recvd>>
    /\ UNCHANGED <<codecVars, serverVars>>

\* the socket write is over, whatever its outcome: last_value.replace(state)
\* (mod.rs 159); a send made by the decode loop resumes the loop
SendDone_Forget ==
    /\ pc \in {"sending", "replay"}
    /\ last_value' = IF pc = "replay" THEN None ELSE state
    /\ state' = None
    /\ IF pc = "sending"
       THEN Return("send", None)
       ELSE pc' = "reading" /\ UNCHANGED ret
    /\ UNCHANGED <<connection_details, client_pin, out, returned, recvd, nsend, lastSendArg>>
    /\ UNCHANGED <<codecVars, serverVars>>

SendDone ==
    /\ pc \in {"sending", "replay"}
    /\ last_value' = state
    /\ state' = None
    /\ IF pc = "sending"
       THEN Return("send", None)
       ELSE pc' = "reading" /\ UNCHANGED ret
    /\ UNCHANGED <<connection_details, client_pin, out, returned, recvd, nsend, lastSendArg>>
    /\ UNCHANGED <<codecVars, serverVars>>

\* ------------------------------------------- Connection::next_socket_event
\* self.close(reason).await; return None
CloseAndReturnNone(reason) ==
    /\ out' = Append(out, CloseFrame(reason))
    /\ Return("next_socket_event", None)
    /\ UNCHANGED <<connection_details, last_value, client_pin, state, returned,
                   nsend, lastSendArg>>

ReturnNone_WithClose == CloseAndReturnNone(<<"Closed by peer">>)

\* return None, nothing written
ReturnNone ==
    /\ Return("next_socket_event", None)
    /\ UNCHANGED <<connection_details, last_value, client_pin, out, state, returned,
                   nsend, lastSendArg>>

\* continue: the loop awaits the next frame
Continue ==
    UNCHANGED <<connection_details, last_value, client_pin, out, pc, state, ret,
                returned, nsend, lastSendArg>>

\* a slice of the message text panics (socket_message.rs 82, 91, 99): the
\* call unwinds and never returns
Panic ==
    /\ pc' = "panicked"
    /\ UNCHANGED <<connection_details, last_value, client_pin, out, state, ret,
                   returned, nsend, lastSendArg>>

\* the call starts (mod.rs 72-75): the pending details are taken and returned,
\* or the decode loop is entered
CallNextSocketEvent_KeepDetails ==
    /\ pc = "idle"
    /\ IF connection_details # None
       THEN /\ UNCHANGED connection_details
            /\ returned' = Append(returned, Connect(connection_details[1]))
            /\ Return("next_socket_event", Some(Connect(connection_details[1])))
       ELSE /\ pc' = "reading"
            /\ UNCHANGED <<connection_details, returned, ret>>
    /\ UNCHANGED <<last_value, client_pin, out, state, recvd, nsend, lastSendArg>>
    /\ UNCHANGED <<codecVars, serverVars>>

CallNextSocketEvent ==
    /\ pc = "idle"
    /\ IF connection_details # None
       THEN /\ connection_details' = None
            /\ returned' = Append(returned, Connect(connection_details[1]))
            /\ Return("next_socket_event", Some(Connect(connection_details[1])))
       ELSE /\ pc' = "reading"
            /\ UNCHANGED <<connection_details, returned, ret>>
    /\ UNCHANGED <<last_value, client_pin, out, state, recvd, nsend, lastSendArg>>
    /\ UNCHANGED <<codecVars, serverVars>>

\* prefix == "sync" (mod.rs 107-113)
HandleSync_CloseWhenEmpty ==
    IF last_value # None
    THEN /\ last_value' = None
         /\ out' = Append(out, ModelFrame(client_pin, last_value[1]))
         /\ state' = Some(last_value[1])
         /\ lastSendArg' = Some(last_value[1])
         /\ pc' = "replay"
         /\ UNCHANGED <<connection_details, client_pin, ret, returned, nsend>>
    ELSE CloseAndReturnNone(<<"Nothing to sync">>)

HandleSync_ClearPin ==
    IF last_value # None
    THEN /\ last_value' = None
         /\ out' = Append(out, ModelFrame(client_pin, last_value[1]))
         /\ state' = Some(last_value[1])
         /\ lastSendArg' = Some(last_value[1])
         /\ pc' = "replay"
         /\ client_pin' = None
         /\ UNCHANGED <<connection_details, ret, returned, nsend>>
    ELSE Continue

HandleSync ==
    IF last_value # None
    THEN /\ last_value' = None
         /\ out' = Append(out, ModelFrame(client_pin, last_value[1]))
         /\ state' = Some(last_value[1])
         /\ lastSendArg' = Some(last_value[1])
         /\ pc' = "replay"
         /\ UNCHANGED <<connection_details, client_pin, ret, returned, nsend>>
    ELSE Continue

\* prefix == "event" (mod.rs 114-136)
HandleEvent_KeepPin(socket_message) ==
    LET context == get_context(socket_message)
        uuid == IF context # None THEN Uuid_parse_str(context[1]) ELSE None
        body == get_body(socket_message)
    IN  IF context = Some(PanicText) THEN Panic
        ELSE IF context # None /\ uuid = None
        THEN CloseAndReturnNone(<<"Expected to receive a valid UUID a context to 'event' message">>)
        ELSE /\ client_pin' = IF uuid # None THEN uuid ELSE client_pin
             /\ IF body = Some(PanicStr)
                THEN /\ pc' = "panicked"
                     /\ UNCHANGED <<out, ret, returned>>
                ELSE IF body # None
                THEN /\ returned' = Append(returned, Update(body[1]))
                     /\ Return("next_socket_event", Some(Update(body[1])))
                     /\ UNCHANGED out
                ELSE /\ out' = Append(out, CloseFrame(<<"Expected to receive JSON body with 'event' message">>))
                     /\ Return("next_socket_event", None)
                     /\ UNCHANGED returned
             /\ UNCHANGED <<connection_details, last_value, state, nsend, lastSendArg>>

HandleEvent_SkipNoBody(socket_message) ==
    LET context == get_context(socket_message)
        uuid == IF context # None THEN Uuid_parse_str(context[1]) ELSE None
        body == get_body(socket_message)
    IN  IF context = Some(PanicText) THEN Panic
        ELSE IF context # None /\ uuid = None
        THEN CloseAndReturnNone(<<"Expected to receive a valid UUID a context to 'event' message">>)
        ELSE /\ client_pin' = uuid
             /\ IF body = Some(PanicStr)
                THEN /\ pc' = "panicked"
                     /\ UNCHANGED <<out, ret, returned>>
                ELSE IF body # None
                THEN /\ returned' = Append(returned, Update(body[1]))
                     /\ Return("next_socket_event", Some(Update(body[1])))
                     /\ UNCHANGED out
                ELSE UNCHANGED <<out, pc, ret, returned>>
             /\ UNCHANGED <<connection_details, last_value, state, nsend, lastSendArg>>

HandleEvent(socket_message) ==
    LET context == get_context(socket_message)
        uuid == IF context # None THEN Uuid_parse_str(context[1]) ELSE None
        body == get_body(socket_message)
    IN  IF context = Some(PanicText) THEN Panic
        ELSE IF context # None /\ uuid = None
        THEN CloseAndReturnNone(<<"Expected to receive a valid UUID a context to 'event' message">>)
        ELSE /\ client_pin' = uuid
             /\ IF body = Some(PanicStr)
                THEN /\ pc' = "panicked"
                     /\ UNCHANGED <<out, ret, returned>>
                ELSE IF body # None
                THEN /\ returned' = Append(returned, Update(body[1]))
                     /\ Return("next_socket_event", Some(Update(body[1])))
                     /\ UNCHANGED out
                ELSE /\ out' = Append(out, CloseFrame(<<"Expected to receive JSON body with 'event' message">>))
                     /\ Return("next_socket_event", None)
                     /\ UNCHANGED returned
             /\ UNCHANGED <<connection_details, last_value, state, nsend, lastSendArg>>

\* Message::Text(text) (mod.rs 90-96, 105-142)
HandleText(text) ==
    LET parsed == parse(text)
    IN  IF ~parsed.ok
        THEN CloseAndReturnNone(<<"Failed to parse socket message">>)
        ELSE LET prefix == get_prefix(parsed.msg)
             IN  IF prefix = PanicText THEN Panic
                 ELSE IF prefix = T_sync THEN HandleSync
                 ELSE IF prefix = T_event THEN HandleEvent(parsed.msg)
                 ELSE CloseAndReturnNone(<<"Invalid message prefix: ">> \o prefix
                                           \o <<". Expected 'sync' or 'event'">>)

\* the stream of the socket is over once it has yielded None or the peer's
\* Close frame: from then on socket.next() yields None
StreamEnded == \E i \in 1..Len(recvd) : recvd[i].type \in {"End", "Close"}

\* one turn of the decode loop: socket.next() yields a frame (mod.rs 78-142)
RecvFrame ==
    /\ pc = "reading"
    /\ Len(recvd) < MaxFrames
    /\ \E message \in IF StreamEnded THEN {f \in Frames : f.type = "End"} ELSE Frames :
         /\ recvd' = Append(recvd, message)
         /\ IF message.type = "Err"
            THEN CloseAndReturnNone(<<"Error parsing incoming message">>)
            ELSE IF message.type = "End" THEN ReturnNone
            ELSE IF message.type = "Text" THEN HandleText(message.text)
            ELSE IF message.type \in {"Ping", "Pong"} THEN Continue
            ELSE IF message.type = "Close" THEN ReturnNone
            ELSE CloseAndReturnNone(<<"Received invalid message">>)
    /\ UNCHANGED <<codecVars, serverVars>>

\* ------------------------------------------------- Connection::next_event
\* mod.rs 67-69: the body is `None`
next_event == None

CallNextEvent ==
    /\ pc = "idle"
    /\ Return("next_event", next_event)
    /\ UNCHANGED <<connection_details, last_value, client_pin, out, state, returned,
                   recvd, nsend, lastSendArg>>
    /\ UNCHANGED <<codecVars, serverVars>>

\* ------------------------------------ Connection::next_event_with_timeout
\* futures::future::select polls its first future first: Left when it is ready,
\* Right when it is pending and the timer has fired.  next_event().boxed() is
\* ready at its first poll.
InactivityReason ==
    <<"Connection closed due to inactivity. When another operation is necessary, reconnect">>

CallNextEventWithTimeout ==
    /\ pc = "idle"
    /\ \E timer_fired \in BOOLEAN :
         LET left_ready == TRUE
             res == IF left_ready THEN Some(next_event)
                    ELSE IF timer_fired THEN None
                    ELSE Some(next_event)
         IN  IF res # None
             THEN /\ Return("next_event_with_timeout", res[1])
                  /\ UNCHANGED out
             ELSE /\ out' = Append(out, CloseFrame(InactivityReason))
                  /\ Return("next_event_with_timeout", None)
    /\ UNCHANGED <<connection_details, last_value, client_pin, state, returned,
                   recvd, nsend, lastSendArg>>
    /\ UNCHANGED <<codecVars, serverVars>>

Next ==
    \/ CallNextSocketEvent
    \/ RecvFrame
    \/ CallSend
    \/ SendDone
    \/ CallNextEvent
    \/ CallNextEventWithTimeout

Spec == Init /\ [][Next]_vars

\* ----------------------------------------------- the codec on its own
\* The inputs of the codec are drawn from bounded sets of texts over Alphabet.
Alphabet == {"p", "(", ")", " ", "1", EAcute}

RECURSIVE TextsUpTo(_)
TextsUpTo(n) ==
    IF n = 0 THEN {<<>>}
    ELSE LET shorter == TextsUpTo(n - 1)
         IN  shorter \cup {Append(t, ch) : t \in shorter, ch \in Alphabet}

Contains(t, ch) == \E i \in 1..Len(t) : t[i] = ch

ParseInputs ==
    {[kind |-> "parse", text |-> t, prefix |-> <<>>, context |-> None, body |-> None] :
        t \in TextsUpTo(MaxLen)}

BuildInputs ==
    {[kind |-> "build", text |-> <<>>, prefix |-> p, context |-> c, body |-> b] :
        p \in {t \in TextsUpTo(MaxPrefixLen) : t # <<>> /\ ~Contains(t, "(")},
        c \in {None} \cup {Some(t) : t \in {u \in TextsUpTo(MaxCtxLen) : ~Contains(u, ")")}},
        b \in {None} \cup {Some(v) : v \in JsonValues}}

InitCodec ==
    /\ connection_details = Some(Details)
    /\ last_value = None
    /\ client_pin = None
    /\ out = <<>>
    /\ pc = "idle"
    /\ state = None
    /\ ret = [op |-> "new", result |-> None]
    /\ returned = <<>>
    /\ recvd = <<>>
    /\ nsend = 0
    /\ lastSendArg = None
    /\ c_in \in {Some(i) : i \in ParseInputs \cup BuildInputs}
    /\ c_built = None
    /\ c_parsed = None
    /\ InitServer

\* SocketMessageBuilder::new(prefix).context(context).body(body).build()
DoBuild ==
    /\ c_in[1].kind = "build"
    /\ c_built = None
    /\ c_built' = Some(build(c_in[1].prefix, c_in[1].context, c_in[1].body))
    /\ UNCHANGED <<c_in, c_parsed>>
    /\ UNCHANGED <<sessionVars, serverVars>>

\* SocketMessage::parse of the input text, or of the text of the built message
DoParse ==
    /\ c_parsed = None
    /\ IF c_in[1].kind = "parse"
       THEN c_parsed' = Some(parse(c_in[1].text))
       ELSE /\ c_built # None
            /\ c_parsed' = Some(parse(to_string(c_built[1].msg)))
    /\ UNCHANGED <<c_in, c_built>>
    /\ UNCHANGED <<sessionVars, serverVars>>

NextCodec == DoBuild \/ DoParse

SpecCodec == InitCodec /\ [][NextCodec]_vars

\* ------------------------------------------------------ SocketServer::new
\* the capacity of the channel between the upgrade tasks and accept_connection
Capacity == 100

InFlight == srv_serving + srv_handshaking + srv_publishing

\* the accept loop: listener.accept() returns a stream, the HTTP connection
\* is built and handed to a spawned task, and the loop iterates
AcceptConn_AfterPublish ==
    /\ srv_accepting
    /\ srv_handshaking = 0
    /\ srv_publishing = 0
    /\ InFlight < MaxInFlight
    /\ srv_serving' = srv_serving + 1
    /\ UNCHANGED <<srv_accepting, srv_handshaking, srv_publishing, srv_queue,
                   srv_receiver, srv_closed, srv_lost>>
    /\ UNCHANGED <<sessionVars, codecVars>>

AcceptConn ==
    /\ srv_accepting
    /\ InFlight < MaxInFlight
    /\ srv_serving' = srv_serving + 1
    /\ UNCHANGED <<srv_accepting, srv_handshaking, srv_publishing, srv_queue,
                   srv_receiver, srv_closed, srv_lost>>
    /\ UNCHANGED <<sessionVars, codecVars>>

\* listener.accept() returns Err: the unwrap panics and the loop's task ends
AcceptFails ==
    /\ srv_accepting
    /\ srv_accepting' = FALSE
    /\ UNCHANGED <<srv_serving, srv_handshaking, srv_publishing, srv_queue,
                   srv_receiver, srv_closed, srv_lost>>
    /\ UNCHANGED <<sessionVars, codecVars>>

\* the service function runs for an upgrade request: upgrade() succeeds, the
\* task awaiting hyper_socket is spawned and the response is returned
UpgradeRequest ==
    /\ srv_serving > 0
    /\ srv_serving' = srv_serving - 1
    /\ srv_handshaking' = srv_handshaking + 1
    /\ UNCHANGED <<srv_accepting, srv_publishing, srv_queue, srv_receiver,
                   srv_closed, srv_lost>>
    /\ UNCHANGED <<sessionVars, codecVars>>

\* the served connection ends without an upgrade (the peer leaves, or
\* upgrade() or connection.await fails and the unwrap ends the task)
ServeEnds ==
    /\ srv_serving > 0
    /\ srv_serving' = srv_serving - 1
    /\ UNCHANGED <<srv_accepting, srv_handshaking, srv_publishing, srv_queue,
                   srv_receiver, srv_closed, srv_lost>>
    /\ UNCHANGED <<sessionVars, codecVars>>

\* hyper_socket.await returns the socket: the Connection is built and the
\* task enters sender.send(Connection).await
HandshakeDone ==
    /\ srv_handshaking > 0
    /\ srv_handshaking' = srv_handshaking - 1
    /\ srv_publishing' = srv_publishing + 1
    /\ UNCHANGED <<srv_accepting, srv_serving, srv_queue, srv_receiver,
                   srv_closed, srv_lost>>
    /\ UNCHANGED <<sessionVars, codecVars>>

\* hyper_socket.await fails: the unwrap ends the task, no Connection exists
HandshakeFails ==
    /\ srv_handshaking > 0
    /\ srv_handshaking' = srv_handshaking - 1
    /\ UNCHANGED <<srv_accepting, srv_serving, srv_publishing, srv_queue,
                   srv_receiver, srv_closed, srv_lost>>
    /\ UNCHANGED <<sessionVars, codecVars>>

\* send resolves Ok: a permit was available and the Connection is stored.
\* With the channel full the task stays suspended in send.
PublishOk ==
    /\ srv_publishing > 0
    /\ srv_receiver
    /\ srv_queue < Capacity
    /\ srv_publishing' = srv_publishing - 1
    /\ srv_queue' = srv_queue + 1
    /\ UNCHANGED <<srv_accepting, srv_serving, srv_handshaking, srv_receiver,
                   srv_closed, srv_lost>>
    /\ UNCHANGED <<sessionVars, codecVars>>

\* send resolves Err(SendError(connection)) because the receiver is gone:
\* the returned Connection is closed with "Failed to queue connection"
PublishErr ==
    /\ srv_publishing > 0
    /\ ~srv_receiver
    /\ srv_closed < MaxClosed
    /\ srv_publishing' = srv_publishing - 1
    /\ srv_closed' = srv_closed + 1
    /\ UNCHANGED <<srv_accepting, srv_serving, srv_handshaking, srv_queue,
                   srv_receiver, srv_lost>>
    /\ UNCHANGED <<sessionVars, codecVars>>

\* accept_connection: recv() takes the oldest stored Connection and returns
\* it to the application
AcceptConnection ==
    /\ srv_receiver
    /\ srv_queue > 0
    /\ srv_queue' = srv_queue - 1
    /\ UNCHANGED <<srv_accepting, srv_serving, srv_handshaking, srv_publishing,
                   srv_receiver, srv_closed, srv_lost>>
    /\ UNCHANGED <<sessionVars, codecVars>>

\* the application drops the SocketServer: the Receiver's drop closes the
\* channel and drops every Connection still stored in it; close() is not
\* called on them
DropServer ==
    /\ srv_receiver
    /\ srv_receiver' = FALSE
    /\ srv_lost' = srv_lost + srv_queue
    /\ srv_queue' = 0
    /\ UNCHANGED <<srv_accepting, srv_serving, srv_handshaking, srv_publishing,
                   srv_closed>>
    /\ UNCHANGED <<sessionVars, codecVars>>

NextServer ==
    \/ AcceptConn
    \/ AcceptFails
    \/ UpgradeRequest
    \/ ServeEnds
    \/ HandshakeDone
    \/ HandshakeFails
    \/ PublishOk
    \/ PublishErr
    \/ AcceptConnection
    \/ DropServer

SpecServer == Init /\ [][NextServer]_vars


\* ================================================================ claims
Last(h) == h[Len(h)]

\* the frame socket.next() yielded in this step
Received(message) == pc = "reading" /\ recvd' = Append(recvd, message)

\* ---------------------------------------------------------------- C1
\* C1: exactly one Connect is ever returned by next_socket_event.  The pending
\* details are present exactly as long as nothing has been returned; the first
\* event returned is Connect(details), every later one is an Update; and while
\* the details are pending no frame has been read from the socket.
C1_ConnectOnceAndFirst ==
    /\ (connection_details # None) <=> (returned = <<>>)
    /\ connection_details # None => recvd = <<>>
    /\ returned # <<>> =>
         /\ returned[1] = Connect(Details)
         /\ \A i \in 2..Len(returned) : returned[i].kind = "Update"

\* a Connect followed by two Updates has been returned
C1_Witness ==
    /\ Len(returned) = 3
    /\ returned[2].kind = "Update"
    /\ connection_details = None

\* ---------------------------------------------------------------- C2
\* C2: on the first call of a freshly accepted Connection (details pending),
\* next_event_with_timeout returns Connect(details) and clears the pending
\* details.
C2_FirstTimedCallReturnsConnect ==
    [][ ( /\ pc = "idle" /\ pc' = "idle"
          /\ ret'.op = "next_event_with_timeout"
          /\ connection_details # None )
        => ( /\ ret'.result = Some(Connect(connection_details[1]))
             /\ connection_details' = None ) ]_vars

\* ---------------------------------------------------------------- C3
\* C3: a call of next_event_with_timeout on a Connection whose Connect has been
\* delivered, during which no frame arrives, writes a normal-closure close
\* frame with the inactivity reason and returns None.
C3_IdleTimeoutCloses ==
    [][ ( /\ pc = "idle" /\ pc' = "idle"
          /\ ret'.op = "next_event_with_timeout"
          /\ connection_details = None
          /\ recvd' = recvd )
        => ( /\ out' = Append(out, CloseFrame(InactivityReason))
             /\ Last(out').code = "Normal"
             /\ ret'.result = None ) ]_vars

\* ---------------------------------------------------------------- C4
SyncTexts == {T_sync, T_sync \o <<"(", "b", ")", " ", "1">>}

\* the text is `model(<anything without parentheses>) <json of value>`
IsModelTextWithBody(text, value) ==
    \E ctx \in {<<>>, <<"a">>, <<"b">>} :
        text = T_model \o <<"(">> \o ctx \o <<")", " ">> \o json_to_string(value)

\* C4: when the most recent send passed V, an inbound sync frame writes exactly
\* one model frame whose body is V and returns nothing for that frame; when
\* the replay completes last_value is V again, nothing more has been written
\* and the decode loop is reading the next frame.
C4_SyncReplaysLastValue ==
    [][ /\ \A t \in SyncTexts :
             (Received(TextFrame(t)) /\ lastSendArg # None) =>
                /\ Len(out') = Len(out) + 1
                /\ SubSeq(out', 1, Len(out)) = out
                /\ Last(out').type = "Text"
                /\ IsModelTextWithBody(Last(out').text, lastSendArg[1])
                /\ returned' = returned
                /\ ret' = ret
                /\ pc' = "replay"
        /\ pc = "replay" =>
                /\ last_value' = lastSendArg
                /\ lastSendArg # None
                /\ out' = out
                /\ returned' = returned
                /\ ret' = ret
                /\ pc' = "reading" ]_vars

\* a sync was the last frame read after a send, and its replay has completed
C4_Witness ==
    /\ recvd # <<>>
    /\ Last(recvd).type = "Text" /\ Last(recvd).text \in SyncTexts
    /\ pc = "reading"
    /\ nsend = 1
    /\ Len(out) = 2
    /\ last_value = lastSendArg

\* ---------------------------------------------------------------- C5
\* C5: on a Connection on which send was never called, an inbound sync frame
\* writes nothing, returns nothing, leaves last_value absent and client_pin
\* unchanged, and the decode loop goes on reading.
C5_SyncWithoutSendIsSilent ==
    [][ \A t \in SyncTexts :
          (Received(TextFrame(t)) /\ nsend = 0) =>
             /\ out' = out
             /\ returned' = returned
             /\ ret' = ret
             /\ last_value = None /\ last_value' = None
             /\ client_pin' = client_pin
             /\ pc' = "reading" ]_vars

\* a sync was read, with a correlation id set, before any send
C5_Witness ==
    /\ recvd # <<>>
    /\ Last(recvd).type = "Text" /\ Last(recvd).text \in SyncTexts
    /\ nsend = 0
    /\ client_pin # None
    /\ pc = "reading"

\* ---------------------------------------------------------------- C6
\* C6: in every reachable state, the states between the steps of a send and of
\* a sync replay included, last_value is the value passed to the most recent
\* call of send (absent when send was never called).
C6_LastValueIsLastSent == last_value = lastSendArg

\* ---------------------------------------------------------------- C7
\* an inbound event message that passed UUID validation
IsValidatedEvent(message) ==
    /\ message.type = "Text"
    /\ parse(message.text).ok
    /\ get_prefix(parse(message.text).msg) = T_event
    /\ LET context == get_context(parse(message.text).msg)
       IN  context = None \/ Uuid_parse_str(context[1]) # None

\* the stringified UUID of the most recent validated event message of history h
ExpectedContext(h) ==
    LET S == {i \in 1..Len(h) : IsValidatedEvent(h[i])}
    IN  IF S = {} THEN <<>>
        ELSE LET i == CHOOSE j \in S : \A k \in S : k <= j
                 context == get_context(parse(h[i].text).msg)
             IN  IF context = None THEN <<>>
                 ELSE Uuid_to_string(Uuid_parse_str(context[1])[1])

\* C7: every call of send (by the application or by a sync replay) writes one
\* text frame `model(<ctx>) <json of value>`, <ctx> being the stringified UUID
\* of the most recent validated event message, empty when that message had no
\* context or there was none.
C7_SendEchoesPin ==
    [][ (pc \notin {"sending", "replay"} /\ pc' \in {"sending", "replay"}) =>
          /\ lastSendArg' # None
          /\ out' = Append(out, TextFrame(T_model \o <<"(">> \o ExpectedContext(recvd')
                                            \o <<")", " ">>
                                            \o json_to_string(lastSendArg'[1]))) ]_vars

\* a send after `event(B) [ ]` wrote `model(b) 1`
C7_Witness ==
    /\ out # <<>>
    /\ Last(out) = TextFrame(T_model \o <<"(", "b", ")", " ", "1">>)
    /\ recvd # <<>>
    /\ Last(recvd) = TextFrame(T_event \o <<"(", "B", ")", " ", "[", " ", "]">>)

\* ---------------------------------------------------------------- C8
EventNoParens == TextFrame(T_event \o <<" ", "1">>)
EventEmptyParens == TextFrame(T_event \o <<"(", ")", " ", "1">>)

\* C8 as claimed: an inbound `event <json-body>` frame (no parenthesised
\* context) makes the decode loop return Update(body) and sets client_pin to
\* absent, without closing the session.
C8_EventWithoutParensUpdates ==
    [][ Received(EventNoParens) =>
          /\ ret' = [op |-> "next_socket_event", result |-> Some(Update("1"))]
          /\ returned' = Append(returned, Update("1"))
          /\ client_pin' = None
          /\ out' = out
          /\ pc' = "idle" ]_vars

\* C8 as amended: the correlation id is optional only as an empty parenthesised
\* context.  `event() <json-body>` returns Update(body) and sets client_pin to
\* absent without closing; `event <json-body>` is a message whose prefix is the
\* whole text: it is closed as an invalid prefix, returns None and leaves
\* client_pin alone.
C8_EmptyParensUpdates ==
    [][ /\ Received(EventEmptyParens) =>
             /\ ret' = [op |-> "next_socket_event", result |-> Some(Update("1"))]
             /\ returned' = Append(returned, Update("1"))
             /\ client_pin' = None
             /\ out' = out
             /\ pc' = "idle"
        /\ Received(EventNoParens) =>
             /\ ret' = [op |-> "next_socket_event", result |-> None]
             /\ returned' = returned
             /\ client_pin' = client_pin
             /\ out' = Append(out, CloseFrame(<<"Invalid message prefix: ">>
                                    \o EventNoParens.text
                                    \o <<". Expected 'sync' or 'event'">>))
             /\ pc' = "idle" ]_vars

\* `event() 1` was read after `event(a) 1` had set the correlation id
C8_Witness ==
    /\ recvd = <<TextFrame(T_event \o <<"(", "a", ")", " ", "1">>), EventEmptyParens>>
    /\ client_pin = None
    /\ ret.result = Some(Update("1"))
    /\ Len(returned) = 3

\* ---------------------------------------------------------------- C9
\* C9: for every non-empty text without `(`, parse succeeds, get_prefix is the
\* whole text untrimmed, and get_context and get_body are None.
C9_NoParenIsAllPrefix ==
    ( /\ c_in[1].kind = "parse"
      /\ c_parsed # None
      /\ c_in[1].text # <<>>
      /\ ~Contains(c_in[1].text, "(") )
    => /\ c_parsed[1].ok
       /\ get_prefix(c_parsed[1].msg) = c_in[1].text
       /\ get_context(c_parsed[1].msg) = None
       /\ get_body(c_parsed[1].msg) = None

\* a text with leading and trailing whitespace and no `(` has been parsed
C9_Witness ==
    /\ c_in[1].kind = "parse"
    /\ c_in[1].text = <<" ", "p", " ", "1">> \o <<>>
    /\ c_parsed # None
    /\ c_parsed[1].ok

\* --------------------------------------------------------------- C10
\* C10: for every non-empty prefix without `(`, every context without `)` and
\* every JSON body, parse of the built text succeeds and returns the same
\* prefix, the same body and the same context, except that context "" comes
\* back as None.
C10_RoundTrip ==
    ( /\ c_in[1].kind = "build"
      /\ c_in[1].context # None
      /\ c_in[1].body # None
      /\ c_parsed # None )
    => /\ c_parsed[1].ok
       /\ get_prefix(c_parsed[1].msg) = c_in[1].prefix
       /\ get_body(c_parsed[1].msg) = c_in[1].body
       /\ get_context(c_parsed[1].msg) =
             IF c_in[1].context[1] = <<>> THEN None ELSE c_in[1].context

\* --------------------------------------------------------------- C11
\* the text is empty or starts with `(`
HasEmptyPrefix(t) == t = <<>> \/ t[1] = "("

\* the first `(` is followed by at least one character and by no `)`
HasUnclosedContext(t) ==
    \E k \in 1..Len(t) :
        /\ t[k] = "("
        /\ \A j \in 1..(k - 1) : t[j] # "("
        /\ k < Len(t)
        /\ \A j \in (k + 1)..Len(t) : t[j] # ")"

\* C11: parse fails with EmptyPrefixNotAllowed iff the text is empty or starts
\* with `(`; otherwise it fails with ExpectedClosingContextParen iff the first
\* `(` is followed by at least one character and no `)` follows it; it
\* succeeds on every other text.
C11_ParseOutcomes ==
    (c_in[1].kind = "parse" /\ c_parsed # None) =>
        LET t == c_in[1].text
            r == c_parsed[1]
        IN  IF HasEmptyPrefix(t) THEN ~r.ok /\ r.err = "EmptyPrefixNotAllowed"
            ELSE IF HasUnclosedContext(t)
                 THEN ~r.ok /\ r.err = "ExpectedClosingContextParen"
            ELSE r.ok

\* a text ending in its first `(` has been parsed, and parse succeeded
C11_Witness ==
    /\ c_in[1].kind = "parse"
    /\ c_in[1].text = <<"p", " ", "(">>
    /\ c_parsed # None
    /\ c_parsed[1].ok
    /\ get_context(c_parsed[1].msg) = None

\* --------------------------------------------------------------- C12
InvalidUuidReason ==
    <<"Expected to receive a valid UUID a context to 'event' message">>

\* the frame is answered by a close with the invalid-UUID reason and None
ClosedForInvalidUuid ==
    /\ out' = Append(out, CloseFrame(InvalidUuidReason))
    /\ ret' = [op |-> "next_socket_event", result |-> None]
    /\ returned' = returned
    /\ pc' = "idle"

\* C12: an inbound `event(<ctx>) ...` text frame whose non-empty context does
\* not parse as a UUID makes the session write a close frame with the
\* invalid-UUID reason and the call return None; no Update is produced.
C12_InvalidUuidCloses ==
    [][ \A ctx \in {<<"x">>, <<EAcute>>} :
          Received(TextFrame(T_event \o <<"(">> \o ctx \o <<")", " ", "1">>))
             => ClosedForInvalidUuid ]_vars

\* C12 for a context of single-byte characters only: the property holds
C12_SingleByteContext ==
    [][ Received(TextFrame(T_event \o <<"(", "x", ")", " ", "1">>))
           => ClosedForInvalidUuid ]_vars

\* --------------------------------------------------------------- C13
\* C13: the channel never stores more than 100 Connections, and every
\* Connection whose handshake completed is held by a publishing task, stored
\* in the channel, returned by accept_connection or closed with reason
\* "Failed to queue connection": none is destroyed in any other way.
C13_NoConnectionLost ==
    /\ srv_queue <= Capacity
    /\ srv_lost = 0

\* C13, the capacity half alone: the property holds
C13_QueueBounded == srv_queue <= Capacity

\* --------------------------------------------------------------- C14
\* the text before the first `(`, the whole text when there is none
TextPrefix(t) ==
    LET S == {i \in 1..Len(t) : t[i] = "("}
    IN  IF S = {} THEN t
        ELSE SubSeq(t, 1, (CHOOSE i \in S : \A j \in S : i <= j) - 1)

\* an `event` text frame with an absent or valid context and a JSON body
IsValidEvent(message) ==
    /\ IsValidatedEvent(message)
    /\ get_body(parse(message.text).msg) \notin {None, Some(PanicStr)}

IsSync(message) ==
    /\ message.type = "Text"
    /\ parse(message.text).ok
    /\ TextPrefix(message.text) = T_sync

\* a frame that ends the session: peer close, end of stream, transport
\* error, or input that is neither Ping, Pong, sync nor a valid event
IsSessionEnding(message) ==
    /\ message.type \notin {"Ping", "Pong"}
    /\ ~IsSync(message)
    /\ ~IsValidEvent(message)

\* the frames of history h received before its first session-ending frame
BeforeFirstEnd(h) ==
    LET S == {i \in 1..Len(h) : IsSessionEnding(h[i])}
    IN  IF S = {} THEN h
        ELSE SubSeq(h, 1, (CHOOSE i \in S : \A j \in S : i <= j) - 1)

RECURSIVE ValidEventBodies(_)
ValidEventBodies(h) ==
    IF h = <<>> THEN <<>>
    ELSE LET rest == ValidEventBodies(SubSeq(h, 1, Len(h) - 1))
         IN  IF IsValidEvent(Last(h))
             THEN Append(rest, get_body(parse(Last(h).text).msg)[1])
             ELSE rest

RECURSIVE UpdateBodies(_)
UpdateBodies(evs) ==
    IF evs = <<>> THEN <<>>
    ELSE LET rest == UpdateBodies(SubSeq(evs, 1, Len(evs) - 1))
         IN  IF Last(evs).kind = "Update" THEN Append(rest, Last(evs).value) ELSE rest

\* C14: the Updates returned so far are, in arrival order, the bodies of the
\* valid `event` text frames received before the first session-ending frame.
C14_UpdatesAreEventsInOrder ==
    UpdateBodies(returned) = ValidEventBodies(BeforeFirstEnd(recvd))

\* C14 as long as no session-ending frame has been received: the property holds
C14_OrderBeforeEnd ==
    (\A i \in 1..Len(recvd) : ~IsSessionEnding(recvd[i]))
        => UpdateBodies(returned) = ValidEventBodies(recvd)

\* --------------------------------------------------------------- C15
NoBodyReason == <<"Expected to receive JSON body with 'event' message">>

\* `event(a)` has no body text, the body text of `event(b) x` is not JSON
EventsWithoutBody ==
    { T_event \o <<"(", "a", ")">>, T_event \o <<"(", "b", ")", " ", "x">> }

\* C15: an inbound `event` message without body text, or whose body text is
\* not valid JSON, parses (get_body is None) and ends the session: the decode
\* loop writes a close frame with the missing-body reason, returns None and
\* produces no Update.
C15_EventWithoutBodyCloses ==
    [][ \A t \in EventsWithoutBody :
          /\ parse(t).ok
          /\ get_body(parse(t).msg) = None
          /\ Received(TextFrame(t)) =>
               /\ out' = Append(out, CloseFrame(NoBodyReason))
               /\ ret' = [op |-> "next_socket_event", result |-> None]
               /\ returned' = returned
               /\ pc' = "idle" ]_vars

\* `event(b) x` was read and answered by the close frame and None
C15_Witness ==
    /\ recvd # <<>>
    /\ Last(recvd) = TextFrame(T_event \o <<"(", "b", ")", " ", "x">>)
    /\ out # <<>>
    /\ Last(out) = CloseFrame(NoBodyReason)
    /\ ret = [op |-> "next_socket_event", result |-> None]
    /\ pc = "idle"

\* --------------------------------------------------------------- C16
InvalidPrefixReason(prefix) ==
    <<"Invalid message prefix: ">> \o prefix \o <<". Expected 'sync' or 'event'">>

\* the frame is answered by one close frame naming the prefix and by None,
\* with no model frame and with last_value and client_pin unchanged
ClosedForInvalidPrefix(prefix) ==
    /\ out' = Append(out, CloseFrame(InvalidPrefixReason(prefix)))
    /\ ret' = [op |-> "next_socket_event", result |-> None]
    /\ returned' = returned
    /\ last_value' = last_value
    /\ client_pin' = client_pin
    /\ pc' = "idle"

HasInvalidPrefix(t) == parse(t).ok /\ TextPrefix(t) \notin {T_sync, T_event}

\* C16: every successfully parsed inbound text frame whose prefix (the text
\* before the first `(`, or the whole text) is neither "sync" nor "event" is
\* answered by one close frame with reason "Invalid message prefix: <prefix>.
\* Expected 'sync' or 'event'" and by None; no model frame is written and
\* last_value and client_pin are unchanged.
C16_InvalidPrefixCloses ==
    [][ \A t \in {u \in InboundTexts : HasInvalidPrefix(u)} :
          Received(TextFrame(t)) => ClosedForInvalidPrefix(TextPrefix(t)) ]_vars

\* C16 for prefixes of single-byte characters only: the property holds
C16_SingleBytePrefix ==
    [][ \A t \in {u \in InboundTexts : HasInvalidPrefix(u) /\ ByteLen(u) = Len(u)} :
          Received(TextFrame(t)) => ClosedForInvalidPrefix(TextPrefix(t)) ]_vars

\* --------------------------------------------------------------- C17
\* C17: once next_socket_event has returned None the session is ended: as
\* long as that None is the latest result returned to the application, no
\* step returns a Connect or an Update.
C17_NoneIsTerminal ==
    [][ (ret = [op |-> "next_socket_event", result |-> None])
           => returned' = returned ]_vars

\* --------------------------------------------------------------- C19
\* C19: a Ping or Pong frame produces no event, no outbound frame and no
\* close, leaves connection_details, last_value and client_pin unchanged and
\* the decode loop goes on reading; a peer Close frame or the end of the
\* stream makes the call return None and nothing is written.
C19_ControlFrames ==
    [][ \A f \in Frames :
          /\ (f.type \in {"Ping", "Pong"} /\ Received(f)) =>
               /\ UNCHANGED <<connection_details, last_value, client_pin, out,
                              returned, ret>>
               /\ pc' = "reading"
          /\ (f.type \in {"Close", "End"} /\ Received(f)) =>
               /\ out' = out
               /\ returned' = returned
               /\ ret' = [op |-> "next_socket_event", result |-> None]
               /\ pc' = "idle" ]_vars

\* a Ping was skipped, then the peer's Close ended the call with nothing written
C19_Witness ==
    /\ Len(recvd) = 2
    /\ recvd[1].type = "Ping"
    /\ recvd[2].type = "Close"
    /\ out = <<>>
    /\ ret = [op |-> "next_socket_event", result |-> None]
    /\ pc = "idle"

\* --------------------------------------------------------------- C20
\* C20: the steps of send and the handling of a sync message leave client_pin
\* unchanged, and every model frame written, by send or by a sync replay,
\* carries the correlation id current when it is written.
C20_PinSurvivesSendAndSync ==
    [][ /\ (pc \in {"sending", "replay"} \/ pc' \in {"sending", "replay"})
             => client_pin' = client_pin
        /\ \A t \in SyncTexts : Received(TextFrame(t)) => client_pin' = client_pin
        /\ (pc \notin {"sending", "replay"} /\ pc' \in {"sending", "replay"}) =>
             /\ Len(out') = Len(out) + 1
             /\ Last(out').type = "Text"
             /\ \E value \in JsonValues :
                  Last(out').text =
                      T_model \o <<"(">>
                        \o (IF client_pin = None THEN <<>> ELSE Uuid_to_string(client_pin[1]))
                        \o <<")", " ">> \o json_to_string(value) ]_vars

\* a value sent before any event went out as `model() 1`; after `event(a) 1`
\* a sync replayed it as `model(a) 1`
C20_Witness ==
    /\ out = << TextFrame(T_model \o <<"(", ")", " ", "1">>),
                TextFrame(T_model \o <<"(", "a", ")", " ", "1">>) >>
    /\ Len(recvd) = 2
    /\ recvd[2] = TextFrame(T_sync)
    /\ client_pin # None

\* --------------------------------------------------------------- C18
\* C18: while the accept loop runs it can accept the next TCP connection,
\* whatever the number of earlier connections with a pending handshake or
\* with a publishing task suspended on the full channel.
C18_AcceptNeverBlocked ==
    (srv_accepting /\ InFlight < MaxInFlight) => ENABLED AcceptConn

\* the channel is full, a publishing task is suspended on it, another
\* connection's handshake is pending, and the loop can accept
C18_Witness ==
    /\ srv_receiver
    /\ srv_queue = Capacity
    /\ srv_publishing >= 1
    /\ srv_handshaking >= 1
    /\ ENABLED AcceptConn

====
